---------------------------- MODULE Spec2Model ----------------------------
(***************************************************************************)
(* Employee-record management application (src/app.py): a credential       *)
(* store, an employee store, a cookie session and six request handlers.    *)
(*                                                                         *)
(* Text is a tuple of one-character strings, so that emptiness, blankness  *)
(* and number syntax are computed from the characters.  A form field that  *)
(* was not submitted is None.                                              *)
(***************************************************************************)
EXTENDS Integers, Sequences, FiniteSets, TLC

\* Largest row id the model lets the employee table hand out.
MaxId == 2

---------------------------------------------------------------------------
\* Text values and the inputs requests are drawn from

None == <<"None">>

AdminName == <<"a", "d", "m", "i", "n">>
AdminPassword == <<"p", "w", "1", "2", "3">>

UsernameInputs == {None, AdminName, <<"A", "d", "m", "i", "n">>}
PasswordInputs == {None, AdminPassword, <<"w", "r", "o", "n", "g">>}

\* Each field's inputs hold a well-formed value and the malformed ones the
\* handlers tell apart: not submitted (None), empty, blank, not a number,
\* not a finite number.
NameInputs == {<<>>, <<" ">>, <<"A", "n", "n">>}
EmailInputs == {None, <<"a", "@", "x">>, <<"b", "@", "x">>}
PositionInputs == {None, <<>>, <<"E", "n", "g">>}
DepartmentInputs == {None, <<"R", "D">>}
SalaryInputs == {None, <<"1", ".", "5">>, <<"a", "b", "c">>, <<"i", "n", "f">>}

Forms == [name : NameInputs, position : PositionInputs,
          department : DepartmentInputs, email : EmailInputs,
          salary : SalaryInputs]

\* The form of a request that carries none (GET).
NoForm == [name |-> None, position |-> None, department |-> None,
           email |-> None, salary |-> None]

\* The ids requests name: every id a row can have, and one no row has.
Ids == 1 .. (MaxId + 1)

---------------------------------------------------------------------------
\* Python truthiness and float()

\* `not x` of a str-or-None: None and '' are falsy, every other string truthy.
Truthy(x) == x # None /\ x # <<>>

IsSpace(c) == c \in {" ", "\t", "\n"}

RECURSIVE LStrip(_)
LStrip(s) == IF s # <<>> /\ IsSpace(Head(s)) THEN LStrip(Tail(s)) ELSE s

RECURSIVE RStrip(_)
RStrip(s) ==
    IF s # <<>> /\ IsSpace(s[Len(s)]) THEN RStrip(SubSeq(s, 1, Len(s) - 1)) ELSE s

\* str.strip()
Strip(s) == LStrip(RStrip(s))

DigitValue(c) ==
    CASE c = "0" -> 0 [] c = "1" -> 1 [] c = "2" -> 2 [] c = "3" -> 3
      [] c = "4" -> 4 [] c = "5" -> 5 [] c = "6" -> 6 [] c = "7" -> 7
      [] c = "8" -> 8 [] c = "9" -> 9 [] OTHER -> -1

IsDigits(s) == s # <<>> /\ \A i \in 1 .. Len(s) : DigitValue(s[i]) >= 0

RECURSIVE DigitsValue(_)
DigitsValue(s) ==
    IF s = <<>> THEN 0
    ELSE 10 * DigitsValue(SubSeq(s, 1, Len(s) - 1)) + DigitValue(s[Len(s)])

Lower(c) ==
    CASE c = "I" -> "i" [] c = "N" -> "n" [] c = "F" -> "f" [] c = "A" -> "a"
      [] c = "T" -> "t" [] c = "Y" -> "y" [] OTHER -> c

LowerAll(s) == [i \in 1 .. Len(s) |-> Lower(s[i])]

\* A float: finite m / 10^e (e fractional digits, trailing zeros dropped),
\* or one of the non-finite values inf, -inf, nan.
Finite(m, e) == [kind |-> "finite", m |-> m, e |-> e]
NonFinite(k) == [kind |-> k, m |-> 0, e |-> 0]
ValueError == [kind |-> "ValueError", m |-> 0, e |-> 0]

RECURSIVE Normal(_, _)
Normal(m, e) == IF e > 0 /\ m % 10 = 0 THEN Normal(m \div 10, e - 1) ELSE Finite(m, e)

DotAt(s) == {i \in 1 .. Len(s) : s[i] = "."}

\* The unsigned part of a float literal: inf, infinity, nan, or decimal digits
\* with at most one point and at least one digit.
ParseUnsigned(s, sign) ==
    LET low == LowerAll(s)
        inf == <<"i", "n", "f">>
        infinity == <<"i", "n", "f", "i", "n", "i", "t", "y">>
        nan == <<"n", "a", "n">>
    IN  IF low = inf \/ low = infinity
        THEN NonFinite(IF sign < 0 THEN "-inf" ELSE "inf")
        ELSE IF low = nan THEN NonFinite("nan")
        ELSE IF DotAt(s) = {}
        THEN IF IsDigits(s) THEN Finite(sign * DigitsValue(s), 0) ELSE ValueError
        ELSE IF Cardinality(DotAt(s)) > 1 THEN ValueError
        ELSE LET d == CHOOSE i \in DotAt(s) : TRUE
                 whole == SubSeq(s, 1, d - 1)
                 frac == SubSeq(s, d + 1, Len(s))
                 digits == whole \o frac
             IN  IF digits # <<>> /\ (whole = <<>> \/ IsDigits(whole))
                                  /\ (frac = <<>> \/ IsDigits(frac))
                 THEN Normal(sign * DigitsValue(digits), Len(frac))
                 ELSE ValueError

\* float(s) for a str s: surrounding whitespace is dropped, one sign allowed.
PyFloat(s) ==
    LET t == Strip(s)
    IN  IF t = <<>> THEN ValueError
        ELSE IF Head(t) = "-" THEN ParseUnsigned(Tail(t), -1)
        ELSE IF Head(t) = "+" THEN ParseUnsigned(Tail(t), 1)
        ELSE ParseUnsigned(t, 1)

\* `float(salary_input) if salary_input else 0.0`
ParseSalary(salary_input) ==
    IF Truthy(salary_input) THEN PyFloat(salary_input) ELSE Finite(0, 0)


---------------------------------------------------------------------------
\* werkzeug.security: a salted one-way hash, kept symbolic

Salts == {"s1"}

generate_password_hash(password, salt) ==
    [salt |-> salt, digest |-> <<"H", salt, password>>]

check_password_hash(pwhash, password) ==
    pwhash.digest = <<"H", pwhash.salt, password>>

---------------------------------------------------------------------------
\* State

VARIABLES
    users,            \* rows of table user: [id, username, password_hash]
    employees,        \* committed rows of table employee
    session_user_id,  \* the session cookie's _user_id; 0 when it holds none
    response,         \* what the last request was answered with
    inflight          \* the requests workers are in the middle of or answered last

vars == <<users, employees, session_user_id, response, inflight>>

\* endpoint: the view that answered; outcome: what it decided; status: the
\* HTTP status; location: the endpoint redirected to or the template rendered;
\* flash: the category of the flashed message.
NoResponse ==
    [endpoint |-> "none", outcome |-> "none", status |-> 0, location |-> "none",
     flash |-> "none"]

\* Variant: every start adds the default user.
SeedAlways(rows, salt) ==
    rows \cup {[id |-> Cardinality(rows) + 1, username |-> AdminName,
                password_hash |-> generate_password_hash(AdminPassword, salt)]}

\* The module-level block: create_all(), then the default user if there is none.
Seed(rows, salt) ==
    IF rows = {}
    THEN {[id |-> 1, username |-> AdminName,
           password_hash |-> generate_password_hash(AdminPassword, salt)]}
    ELSE rows

\* An Employee object: the columns of table employee.
NewEmployee(id, name, position, department, email, salary) ==
    [id |-> id, name |-> name, position |-> position, department |-> department,
     email |-> email, salary |-> salary]

\* The workers that serve requests side by side.
Workers == {"w1", "w2"}

NoRow == NewEmployee(0, None, None, None, None, Finite(0, 0))

Init ==
    /\ \E salt \in Salts : users = Seed({}, salt)
    /\ employees = {}
    /\ session_user_id = 0
    /\ response = NoResponse
    /\ inflight = {}

---------------------------------------------------------------------------
\* Flask-Login

\* load_user: User.query.get(int(user_id))
load_user(user_id) == {u \in users : u.id = user_id}

is_authenticated == load_user(session_user_id) # {}

\* Variant: any password verifies.
check_password_any(user, password) == TRUE

\* User.check_password
check_password(user, password) == check_password_hash(user.password_hash, password)

\* What a handler returns: the committed employee rows, the session and the answer.
Result(rows, sid, endpoint, outcome, status, location, flash) ==
    [employees |-> rows, session_user_id |-> sid,
     response |-> [endpoint |-> endpoint, outcome |-> outcome, status |-> status,
                   location |-> location, flash |-> flash]]

\* An answer that leaves the store and the session as they are.
Answer(endpoint, outcome, status, location, flash) ==
    Result(employees, session_user_id, endpoint, outcome, status, location, flash)

\* LoginManager.unauthorized with login_view = 'login': flash and redirect.
Unauthorized(endpoint) == Answer(endpoint, "Unauthenticated", 302, "login", "message")

\* Variant: the view runs whoever asks.
login_not_required(endpoint, view) == view

\* @login_required
\* Variant: the view looks the row up before the session is checked.
login_required_late(endpoint, view) ==
    IF view.response.outcome = "NotFound" THEN view
    ELSE IF is_authenticated THEN view ELSE Unauthorized(endpoint)

login_required(endpoint, view) ==
    IF is_authenticated THEN view ELSE Unauthorized(endpoint)

---------------------------------------------------------------------------
\* Authentication routes

UserByName(username) == {u \in users : u.username = username}

\* Variant: a login is processed whoever is signed in.
login_again(method, username, password) ==
    IF method = "POST"
    THEN IF UserByName(username) = {}
         THEN Answer("login", "InvalidCredentials", 200, "login.html", "danger")
         ELSE LET user == CHOOSE u \in UserByName(username) : TRUE
              IN  IF password = None
                  THEN Answer("login", "ServerError", 500, "none", "none")
                  ELSE IF check_password(user, password)
                  THEN Result(employees, user.id, "login", "Success", 302, "index", "success")
                  ELSE Answer("login", "InvalidCredentials", 200, "login.html", "danger")
    ELSE Answer("login", "Rendered", 200, "login.html", "none")

login(method, username, password) ==
    IF is_authenticated
    THEN Answer("login", "AlreadySignedIn", 302, "index", "none")
    ELSE IF method = "POST"
    THEN IF UserByName(username) = {}
         THEN Answer("login", "InvalidCredentials", 200, "login.html", "danger")
         ELSE LET user == CHOOSE u \in UserByName(username) : TRUE
              IN  IF password = None
                  THEN \* check_password_hash(h, None): None has no encode()
                       Answer("login", "ServerError", 500, "none", "none")
                  ELSE IF check_password(user, password)
                  THEN Result(employees, user.id, "login", "Success", 302, "index", "success")
                  ELSE Answer("login", "InvalidCredentials", 200, "login.html", "danger")
    ELSE Answer("login", "Rendered", 200, "login.html", "none")

\* Variant: logout answers but leaves the session in place.
logout_keeps_session ==
    login_required("logout", Answer("logout", "Success", 302, "login", "none"))

logout ==
    login_required("logout", Result(employees, 0, "logout", "Success", 302, "login", "none"))

---------------------------------------------------------------------------
\* Employee store

\* Employee.query.get_or_404(id): the rows with this primary key
Row(id) == {e \in employees : e.id = id}

\* Variant: the lookup filters on the wrong column.
ByEmailWrongColumn(email) == {e \in employees : e.name = email}

\* Employee.query.filter_by(email=email)
ByEmail(email) == {e \in employees : e.email = email}

\* .first(): SQLite scans in rowid order
First(rows) == CHOOSE e \in rows : \A o \in rows : e.id <= o.id

\* Variant: add does not look the email up.
EmailRegisteredUnchecked(email) == FALSE

\* add: `if Employee.query.filter_by(email=email).first():`
EmailRegistered(email) == ByEmail(email) # {}

\* Variant: update does not except the record being edited.
EmailHeldByAny(id, email) == ByEmail(email) # {}

\* update: `if existing_employee and existing_employee.id != id:`
EmailHeldByOther(id, email) ==
    ByEmail(email) # {} /\ First(ByEmail(email)).id # id

\* Variant: ids are handed out by row count.
NextIdByCount == Cardinality(employees) + 1

\* INTEGER PRIMARY KEY without AUTOINCREMENT: one more than the largest rowid
NextId ==
    IF employees = {} THEN 1
    ELSE 1 + (CHOOSE i \in {e.id : e \in employees} : \A e \in employees : e.id <= i)

\* The session's view of the rows once object e is new or dirty in it.
\* Variant: the edited object is written beside the row it was loaded from.
WithObjectBeside(rows, e) == rows \cup {e}

WithObject(rows, e) == {r \in rows : r.id # e.id} \cup {e}

\* db.session.commit(): the session's view becomes the committed rows.
Commit(committed, pending) == pending

\* Variant: pending changes are flushed when the request ends.
DiscardFlushes(committed, pending) == pending

\* A request that ends without commit(): the session is removed with the
\* application context and its pending changes are dropped.
Discard(committed, pending) == committed

index == login_required("index", Answer("index", "Rendered", 200, "index.html", "none"))

add_employee(method, form) ==
    login_required("add_employee",
      IF method # "POST" THEN Answer("add_employee", "Rendered", 200, "add_employee.html", "none")
      ELSE
      LET name == form.name
          email == form.email
          salary == ParseSalary(form.salary)
      IN  IF ~Truthy(name) \/ ~Truthy(email)
          THEN Answer("add_employee", "MissingRequiredField", 302, "add_employee", "danger")
          ELSE IF EmailRegistered(email)
          THEN Answer("add_employee", "DuplicateEmail", 302, "add_employee", "danger")
          ELSE IF salary = ValueError
          THEN Answer("add_employee", "InvalidNumber", 302, "add_employee", "danger")
          ELSE IF form.position = None \/ form.department = None
          THEN \* request.form[...] of a missing key: BadRequestKeyError
               Answer("add_employee", "BadRequest", 400, "none", "none")
          ELSE LET new_employee == NewEmployee(NextId, name, form.position,
                                               form.department, email, salary)
               IN  Result(Commit(employees, WithObject(employees, new_employee)),
                          session_user_id, "add_employee", "Success", 302, "index", "success"))

update_employee(method, id, form) ==
    login_required("update_employee",
      IF Row(id) = {} THEN Answer("update_employee", "NotFound", 404, "none", "none")
      ELSE IF method # "POST" THEN Answer("update_employee", "Rendered", 200, "update_employee.html", "none")
      ELSE
      LET employee == First(Row(id))
          name == form.name
          email == form.email
          salary == ParseSalary(form.salary)
      IN  IF ~Truthy(name) \/ ~Truthy(email)
          THEN Answer("update_employee", "MissingRequiredField", 302, "update_employee", "danger")
          ELSE IF EmailHeldByOther(id, email)
          THEN Answer("update_employee", "DuplicateEmail", 302, "update_employee", "danger")
          ELSE IF salary = ValueError
          THEN Answer("update_employee", "InvalidNumber", 302, "update_employee", "danger")
          ELSE
          LET e1 == [employee EXCEPT !.name = name]
          IN  IF form.position = None
              THEN Result(Discard(employees, WithObject(employees, e1)),
                          session_user_id, "update_employee", "BadRequest", 400, "none", "none")
              ELSE
              LET e2 == [e1 EXCEPT !.position = form.position]
              IN  IF form.department = None
                  THEN Result(Discard(employees, WithObject(employees, e2)),
                              session_user_id, "update_employee", "BadRequest", 400, "none", "none")
                  ELSE
                  LET e3 == [e2 EXCEPT !.department = form.department,
                                       !.email = email, !.salary = salary]
                  IN  Result(Commit(employees, WithObject(employees, e3)),
                             session_user_id, "update_employee", "Success", 302, "index", "success"))

\* Variant: delete removes every row up to the one named.
DeletedUpTo(rows, employee) == {r \in rows : r.id > employee.id}

\* db.session.delete(employee)
Deleted(rows, employee) == rows \ {employee}

delete_employee(id) ==
    login_required("delete_employee",
      IF Row(id) = {} THEN Answer("delete_employee", "NotFound", 404, "none", "none")
      ELSE LET employee == First(Row(id))
           IN  Result(Commit(employees, Deleted(employees, employee)),
                      session_user_id, "delete_employee", "Success", 302, "index", "success"))

---------------------------------------------------------------------------
\* One action per route; a request is handled from start to end in one step.

Respond(r) ==
    /\ employees' = r.employees
    /\ session_user_id' = r.session_user_id
    /\ response' = r.response
    /\ UNCHANGED <<users, inflight>>

\* No row id above MaxId is handed out.
WithinBound(r) == \A e \in r.employees : e.id <= MaxId

Login ==
    \/ Respond(login("GET", None, None))
    \/ \E username \in UsernameInputs, password \in PasswordInputs :
           Respond(login("POST", username, password))

Logout == Respond(logout)

Index == Respond(index)

\* The forms a POST is drawn with.  A request that is refused before the view
\* reads request.form is answered the same whatever it carries: it is drawn
\* with one form.
FormsRead(read) == IF read THEN Forms ELSE {NoForm}

AddEmployee ==
    \/ Respond(add_employee("GET", NoForm))
    \/ \E form \in FormsRead(is_authenticated) :
           /\ WithinBound(add_employee("POST", form))
           /\ Respond(add_employee("POST", form))

UpdateEmployee ==
    \E id \in Ids :
        \/ Respond(update_employee("GET", id, NoForm))
        \/ \E form \in FormsRead(is_authenticated /\ Row(id) # {}) :
               Respond(update_employee("POST", id, form))

DeleteEmployee == \E id \in Ids : Respond(delete_employee(id))

\* A process start: the module-level block runs again on the database file.
\* The cookie session outlives the process; the new process has answered no
\* request yet.
Boot ==
    /\ \E salt \in Salts : users' = Seed(users, salt)
    /\ response' = NoResponse
    /\ UNCHANGED <<employees, session_user_id, inflight>>

Next ==
    \/ Login
    \/ Logout
    \/ Index
    \/ AddEmployee
    \/ UpdateEmployee
    \/ DeleteEmployee
    \/ Boot

Spec == Init /\ [][Next]_vars

---------------------------------------------------------------------------
\* Requests served side by side.  A worker handles an add or an update in two
\* steps: the view's checks against the rows committed so far, and later
\* db.session.commit(), which writes against the rows committed by then.

\* The forms raced with: complete ones, differing in email.
ConcurrentForms ==
    {form \in Forms : /\ form.name = <<"A", "n", "n">>
                      /\ form.position = <<"E", "n", "g">>
                      /\ form.department = <<"R", "D">>
                      /\ form.email # None
                      /\ form.salary = None}

\* Variant: the email column carries no unique index.
UniqueNotEnforced(rows, row) == FALSE

\* email = db.Column(..., unique=True): the write of `row` breaks the index
\* when another row holds its email.
UniqueViolation(rows, row) ==
    \E e \in rows : e.id # row.id /\ e.email = row.email

\* The UPDATE a flush emits carries the columns whose value differs from the
\* one loaded; the others stay as committed.
Merge(current, loaded, object) ==
    [id |-> current.id,
     name |-> IF object.name # loaded.name THEN object.name ELSE current.name,
     position |-> IF object.position # loaded.position
                  THEN object.position ELSE current.position,
     department |-> IF object.department # loaded.department
                    THEN object.department ELSE current.department,
     email |-> IF object.email # loaded.email THEN object.email ELSE current.email,
     salary |-> IF object.salary # loaded.salary
                THEN object.salary ELSE current.salary]

\* inflight holds one record per worker that took a request on the two-step
\* path: pc "checked" while its commit is pending, "done" once answered.
Pending(w) == {p \in inflight : p.worker = w /\ p.pc = "checked"}

\* Whether the worker checks while another worker's commit is pending.
Overlaps(w) == \E o \in inflight : o.worker # w /\ o.pc = "checked"

\* The view up to commit(): its answer r if it fails, else the object it
\* built waits for the commit.
Checked(w, r, loaded, object) ==
    /\ Pending(w) = {}
    /\ LET others == {o \in inflight : o.worker # w}
           request == [worker |-> w, pc |-> "checked",
                       endpoint |-> r.response.endpoint,
                       loaded |-> loaded, object |-> object,
                       outcome |-> "none", overlapped |-> Overlaps(w)]
       IN  IF r.response.outcome = "Success"
           THEN /\ inflight' =
                     {IF o.pc = "checked" THEN [o EXCEPT !.overlapped = TRUE] ELSE o :
                        o \in others} \cup {request}
                /\ UNCHANGED <<users, employees, session_user_id, response>>
           ELSE /\ inflight' =
                     others \cup {[request EXCEPT !.pc = "done",
                                                  !.outcome = r.response.outcome]}
                /\ employees' = r.employees
                /\ session_user_id' = r.session_user_id
                /\ response' = r.response
                /\ UNCHANGED users

\* The Employee(...) of add_employee, before the INSERT gives it an id.
FormObject(form) ==
    NewEmployee(0, form.name, form.position, form.department, form.email,
                ParseSalary(form.salary))

CheckAdd(w) ==
    \E form \in ConcurrentForms :
        Checked(w, add_employee("POST", form), NoRow, FormObject(form))

CheckUpdate(w) ==
    \E id \in Ids, form \in ConcurrentForms :
        LET loaded == IF Row(id) = {} THEN NoRow ELSE First(Row(id))
        IN  Checked(w, update_employee("POST", id, form), loaded,
                    [FormObject(form) EXCEPT !.id = id])

\* The row commit() writes: the INSERT of add with the next id, the UPDATE of
\* update merged into the committed row.
Written(p) ==
    IF p.endpoint = "add_employee"
    THEN [p.object EXCEPT !.id = NextId]
    ELSE Merge(First(Row(p.loaded.id)), p.loaded, p.object)

\* db.session.commit() of a pending request.  A write the unique index
\* refuses raises IntegrityError: nothing is written and the request ends
\* in a server error.
CommitPending(w) ==
    \E p \in Pending(w) :
        /\ Written(p).id <= MaxId
        /\ IF UniqueViolation(employees, Written(p))
           THEN /\ employees' = Discard(employees, WithObject(employees, Written(p)))
                /\ response' = [endpoint |-> p.endpoint,
                                outcome |-> "IntegrityError", status |-> 500,
                                location |-> "none", flash |-> "none"]
                /\ inflight' = (inflight \ {p}) \cup
                                   {[p EXCEPT !.pc = "done",
                                              !.outcome = "IntegrityError"]}
           ELSE /\ employees' = Commit(employees, WithObject(employees, Written(p)))
                /\ response' = [endpoint |-> p.endpoint,
                                outcome |-> "Success", status |-> 302,
                                location |-> "index", flash |-> "success"]
                /\ inflight' = (inflight \ {p}) \cup
                                   {[p EXCEPT !.pc = "done", !.outcome = "Success"]}
        /\ UNCHANGED <<users, session_user_id>>

NextConcurrent ==
    \/ Login
    \/ \E w \in Workers : CheckAdd(w)
    \/ \E w \in Workers : CheckUpdate(w)
    \/ \E w \in Workers : CommitPending(w)

SpecConcurrent == Init /\ [][NextConcurrent]_vars

---------------------------------------------------------------------------

\* Properties.  A property about "every request of some kind" is stated over
\* the handler's result for every such request in every reachable state.

Authenticated == session_user_id # 0 /\ \E u \in users : u.id = session_user_id

Holds(email) == {e \in employees : e.email = email}

IdsOf(rows) == {e.id : e \in rows}

Empty(x) == x = None \/ x = <<>>

\* absent, empty, or empty after trimming
Blank(x) == x = None \/ Strip(x) = <<>>

Answered(endpoint, outcome) ==
    response.endpoint = endpoint /\ response.outcome = outcome

ProtectedEndpoints ==
    {"index", "logout", "add_employee", "update_employee", "delete_employee"}

\* C1: no two distinct Employee records hold the same email.
C1_EmailUnique ==
    \A e1 \in employees, e2 \in employees : e1.email = e2.email => e1 = e2

C1_Witness ==
    /\ Cardinality(employees) = 2
    /\ Answered("update_employee", "Success")

\* C2: a request to list, add, update, delete or logout made while the
\* session is Anonymous is answered Unauthenticated with a redirect to login,
\* and leaves the employee store, the user store and the session as they were.
C2_AnonymousRefused ==
    [][(~Authenticated /\ response'.endpoint \in ProtectedEndpoints)
         => /\ response'.outcome = "Unauthenticated"
            /\ response'.status = 302 /\ response'.location = "login"
            /\ employees' = employees
            /\ users' = users
            /\ session_user_id' = session_user_id]_vars

C2_Witness ==
    /\ ~Authenticated
    /\ employees # {}
    /\ Answered("delete_employee", "Unauthenticated")

\* C3 as claimed: every authenticated add whose email some record holds is
\* answered DuplicateEmail and leaves the store unchanged.
C3_AddDuplicateAlwaysDuplicateEmail ==
    Authenticated =>
        \A form \in Forms :
            Holds(form.email) # {} =>
                LET r == add_employee("POST", form)
                IN  /\ r.response.outcome = "DuplicateEmail"
                    /\ r.employees = employees

\* C3 as amended: every authenticated add whose email some record holds fails
\* and leaves the store unchanged; it is answered DuplicateEmail when the name
\* is non-empty, and MissingRequiredField when the name is absent or empty.
C3_AddDuplicateRejected ==
    Authenticated =>
        \A form \in Forms :
            Holds(form.email) # {} =>
                LET r == add_employee("POST", form)
                IN  /\ r.response.outcome =
                          IF Empty(form.name) THEN "MissingRequiredField"
                          ELSE "DuplicateEmail"
                    /\ r.employees = employees

C3_Witness ==
    /\ employees # {}
    /\ Answered("add_employee", "DuplicateEmail")

C5_FailedUpdateChangesNothing ==
    \A id \in Ids, form \in Forms :
        LET r == update_employee("POST", id, form)
        IN  r.response.outcome # "Success" => r.employees = employees

C5_Witness ==
    /\ employees # {}
    /\ Answered("update_employee", "BadRequest")

\* The record an add of this form is to store.
Submitted(id, form) ==
    [id |-> id, name |-> form.name, position |-> form.position,
     department |-> form.department, email |-> form.email,
     salary |-> ParseSalary(form.salary)]

\* The add of this form succeeds and adds exactly one record, which has a
\* fresh id and the submitted fields and is the only one with its email;
\* every record there was is unchanged.
AddsExactlyOne(form) ==
    LET r == add_employee("POST", form)
        new == r.employees \ employees
    IN  /\ r.response.outcome = "Success"
        /\ employees \subseteq r.employees
        /\ Cardinality(r.employees) = Cardinality(employees) + 1
        /\ \A e \in new : e.id \notin IdsOf(employees) /\ e = Submitted(e.id, form)
        /\ Cardinality({e \in r.employees : e.email = form.email}) = 1

C7_DeleteExactlyOne ==
    Authenticated =>
        \A id \in Ids :
            LET r == delete_employee(id)
            IN  IF \E e \in employees : e.id = id
                THEN /\ r.response.outcome = "Success"
                     /\ r.employees = {e \in employees : e.id # id}
                ELSE /\ r.response.outcome = "NotFound"
                     /\ r.employees = employees

C7_Witness ==
    /\ employees # {}
    /\ Answered("delete_employee", "Success")

\* C8: add and update answer MissingRequiredField to a name or email that is
\* absent, empty or blank, and create or change no record; so no stored
\* Employee has a name or email that is empty after trimming.
C8_NoBlankNameOrEmail ==
    \A e \in employees : ~Blank(e.name) /\ ~Blank(e.email)

\* C9: on add and update a salary that is absent or empty is stored as 0.0, a
\* finite decimal as that number, and any other text (not a number, or an
\* infinity or NaN token) is answered InvalidNumber with the store unchanged;
\* so every stored salary is a finite number.
C9_SalaryFinite ==
    \A e \in employees : e.salary.kind = "finite"

C11_SessionStateMachine ==
    [][/\ session_user_id' # session_user_id =>
              \/ /\ ~Authenticated /\ Authenticated'
                 /\ response'.endpoint = "login" /\ response'.outcome = "Success"
              \/ /\ Authenticated /\ ~Authenticated'
                 /\ response'.endpoint = "logout" /\ response'.outcome = "Success"
       /\ (Authenticated /\ response'.endpoint = "logout") => ~Authenticated'
       /\ (Authenticated /\ response'.endpoint = "login") =>
              /\ response'.outcome = "AlreadySignedIn"
              /\ session_user_id' = session_user_id]_vars

C11_Witness ==
    /\ Authenticated
    /\ Answered("login", "AlreadySignedIn")

\* C12 as claimed: in every state a logout ends with the session Anonymous and
\* the stores unchanged, and is not reported as an error, also when the
\* session is already ended or absent.
C12_LogoutNeverAnError ==
    LET r == logout
    IN  /\ r.session_user_id = 0
        /\ r.employees = employees
        /\ r.response.outcome = "Success"

\* C12 as amended: in every state a logout ends with the session Anonymous and
\* the employee store unchanged and redirects to login; made while
\* Authenticated it is answered Success, made while the session is already
\* ended or absent it is answered Unauthenticated with a flashed message.
C12_LogoutIdempotent ==
    LET r == logout
    IN  /\ r.session_user_id = 0
        /\ r.employees = employees
        /\ r.response.status = 302 /\ r.response.location = "login"
        /\ r.response.outcome =
               IF Authenticated THEN "Success" ELSE "Unauthenticated"
        /\ r.response.flash = IF Authenticated THEN "none" ELSE "message"

C12_Witness ==
    /\ ~Authenticated
    /\ employees # {}
    /\ Answered("logout", "Unauthenticated")

\* Two requests contend for an email when each would write it, to different
\* records: an add writes its email to a new record, an update writes its
\* email to the record it names unless that record had it when loaded.
WritesEmail(a) ==
    a.endpoint = "add_employee" \/ a.object.email # a.loaded.email

Contend(a, b) ==
    /\ WritesEmail(a) /\ WritesEmail(b)
    /\ a.object.email = b.object.email
    /\ \/ a.endpoint = "add_employee"
       \/ b.endpoint = "add_employee"
       \/ a.loaded.id # b.loaded.id

\* C13: with add and update requests interleaved at their email check and
\* their commit, no two records ever hold the same email; a request refused
\* at its commit leaves the store as it was, a request that commits writes
\* one whole record; and of two overlapping requests that contend for the
\* same email, either both are refused or exactly one succeeds, the other
\* being refused by the email check or, when both passed it, by the unique
\* index at its commit.
C13_RaceKeepsEmailsUnique ==
    [][/\ \A e1 \in employees', e2 \in employees' :
              e1.email = e2.email => e1 = e2
       /\ \A p \in inflight, q \in inflight' :
              (p.pc = "checked" /\ q.pc = "done" /\ q.worker = p.worker) =>
                  IF q.outcome = "Success"
                  THEN \E e \in employees' :
                          IF p.endpoint = "add_employee"
                          THEN /\ e.id \notin IdsOf(employees)
                               /\ employees' = employees \cup {e}
                               /\ [e EXCEPT !.id = 0] = p.object
                          ELSE /\ e.id = p.loaded.id
                               /\ IdsOf(employees') = IdsOf(employees)
                               /\ {r \in employees' : r.id # e.id}
                                      = {r \in employees : r.id # e.id}
                  ELSE employees' = employees
       /\ \A a \in inflight', b \in inflight' :
              (/\ a.worker # b.worker
               /\ a.pc = "done" /\ b.pc = "done"
               /\ a.overlapped /\ b.overlapped
               /\ Contend(a, b)) =>
                  /\ ~(a.outcome = "Success" /\ b.outcome = "Success")
                  /\ ({a.outcome, b.outcome} \subseteq {"Success", "IntegrityError"}
                        => "Success" \in {a.outcome, b.outcome})]_vars

C13_Witness ==
    \E a \in inflight, b \in inflight :
        /\ a.worker # b.worker
        /\ a.pc = "done" /\ b.pc = "done"
        /\ a.overlapped /\ b.overlapped
        /\ Contend(a, b)
        /\ a.endpoint = "add_employee"
        /\ b.endpoint = "update_employee"
        /\ a.outcome = "Success"
        /\ b.outcome = "IntegrityError"

\* C14: Department is optional and position and department are free text: an
\* authenticated add or update with a non-empty name, a submitted position, a
\* non-empty email no other record holds and a parsable salary succeeds
\* whatever the department field, also when it is absent, and stores the
\* record with the submitted position and with the submitted department or,
\* when absent, none.
C14_DepartmentOptional ==
    Authenticated =>
        \A form \in Forms :
            (/\ ~Empty(form.name) /\ ~Empty(form.email)
             /\ form.position # None
             /\ ParseSalary(form.salary) # ValueError) =>
                /\ Holds(form.email) = {} =>
                       LET r == add_employee("POST", form)
                       IN  /\ r.response.outcome = "Success"
                           /\ \E e \in r.employees :
                                  /\ e.position = form.position
                                  /\ e.department = form.department
                /\ \A id \in IdsOf(employees) :
                       Holds(form.email) \subseteq Row(id) =>
                           LET r == update_employee("POST", id, form)
                           IN  /\ r.response.outcome = "Success"
                               /\ \E e \in r.employees :
                                      /\ e.id = id
                                      /\ e.position = form.position
                                      /\ e.department = form.department

\* C15: from one state, a login with a username no user has and a login with
\* a stored username and a password (submitted or not) that does not verify
\* against that user's hash are answered alike:
\* both InvalidCredentials, the same status, page and message category, the
\* session left Anonymous and the stores unchanged.
C15_FailedLoginsAlike ==
    ~Authenticated =>
        \A known \in UsernameInputs, unknown \in UsernameInputs,
           password \in PasswordInputs :
            (/\ \E u \in users : /\ u.username = known
                                 /\ ~check_password_hash(u.password_hash, password)
             /\ \A u \in users : u.username # unknown) =>
                LET r1 == login("POST", known, password)
                    r2 == login("POST", unknown, password)
                IN  /\ r1 = r2
                    /\ r1.response.outcome = "InvalidCredentials"
                    /\ r1.response.flash = "danger"
                    /\ r1.session_user_id = session_user_id
                    /\ r1.employees = employees

\* C16: every stored Employee record has a non-empty name, a non-empty
\* position and a non-empty email.
C16_RequiredFieldsStored ==
    \A e \in employees : ~Empty(e.name) /\ ~Empty(e.position) /\ ~Empty(e.email)

\* C17: in every state reached by process starts interleaved with requests,
\* the credential store is non-empty, no two users share a username, one user
\* at most has the seeded username, and a further start seeds the default
\* user exactly when the store holds no user: with users present it leaves
\* the store as it is.
C17_SeededOnce ==
    /\ users # {}
    /\ \A u1 \in users, u2 \in users : u1.username = u2.username => u1 = u2
    /\ Cardinality({u \in users : u.username = AdminName}) <= 1
    /\ \A salt \in Salts :
           LET started == Seed(users, salt)
           IN  /\ started # {}
               /\ users # {} => started = users
               /\ users = {} => \E u \in started : /\ started = {u}
                                                   /\ u.username = AdminName

C17_Witness ==
    /\ response = NoResponse
    /\ employees # {}
    /\ Authenticated
    /\ \E u \in users : u.username = AdminName

\* C18: an authenticated update that succeeds leaves the record with the
\* given id holding that id and the submitted name, position, department,
\* email and salary, leaves the ids and the number of records as they were
\* and every other record with all its fields; an authenticated update of an
\* id no record has is answered NotFound whatever the fields and leaves the
\* store as it was, creating no record.
C18_UpdateFrame ==
    Authenticated =>
        \A id \in Ids, form \in Forms :
            LET r == update_employee("POST", id, form)
            IN  IF id \in IdsOf(employees)
                THEN r.response.outcome = "Success" =>
                         /\ Submitted(id, form) \in r.employees
                         /\ IdsOf(r.employees) = IdsOf(employees)
                         /\ Cardinality(r.employees) = Cardinality(employees)
                         /\ {e \in r.employees : e.id # id}
                                = {e \in employees : e.id # id}
                ELSE /\ r.response.outcome = "NotFound"
                     /\ r.response.status = 404
                     /\ r.employees = employees

C18_Witness ==
    /\ Authenticated
    /\ Answered("update_employee", "Success")
    /\ \E e1 \in employees, e2 \in employees :
           e1.id # e2.id /\ e1.position # e2.position

\* The outcomes recovered at the request boundary: the successes and the
\* errors of the taxonomy.
Recovered ==
    {"none", "Success", "Rendered", "AlreadySignedIn",
     "Unauthenticated", "InvalidCredentials", "MissingRequiredField",
     "InvalidNumber", "DuplicateEmail", "NotFound"}

\* C19: every add or update request, also one whose form lacks the position
\* or department field, ends in a success or in one of the errors of the
\* taxonomy; none ends in a failure outside it.
C19_EveryRequestRecovered ==
    response.endpoint \in {"add_employee", "update_employee"} =>
        response.outcome \in Recovered

\* C20: update and delete decide in a fixed order: the session first
\* (Unauthenticated), then the existence of the id (NotFound), then for an
\* update the required fields (MissingRequiredField), the email held by
\* another record (DuplicateEmail) and the salary (InvalidNumber).  So an
\* Anonymous request for an id no record has is answered Unauthenticated, and
\* an authenticated update of such an id NotFound whatever the fields.
C20_GuardOrder ==
    \A id \in Ids :
        IF ~Authenticated
        THEN /\ delete_employee(id).response.outcome = "Unauthenticated"
             /\ update_employee("GET", id, NoForm).response.outcome = "Unauthenticated"
             /\ \A form \in Forms :
                    update_employee("POST", id, form).response.outcome
                        = "Unauthenticated"
        ELSE IF id \notin IdsOf(employees)
        THEN /\ delete_employee(id).response.outcome = "NotFound"
             /\ update_employee("GET", id, NoForm).response.outcome = "NotFound"
             /\ \A form \in Forms :
                    update_employee("POST", id, form).response.outcome = "NotFound"
        ELSE /\ delete_employee(id).response.outcome = "Success"
             /\ update_employee("GET", id, NoForm).response.outcome = "Rendered"
             /\ \A form \in Forms :
                    LET outcome == update_employee("POST", id, form).response.outcome
                    IN  IF Empty(form.name) \/ Empty(form.email)
                        THEN outcome = "MissingRequiredField"
                        ELSE IF \E e \in employees : e.email = form.email /\ e.id # id
                        THEN outcome = "DuplicateEmail"
                        ELSE IF ParseSalary(form.salary) = ValueError
                        THEN outcome = "InvalidNumber"
                        ELSE outcome \in {"Success", "BadRequest"}

C20_Witness ==
    /\ ~Authenticated
    /\ employees = {}
    /\ Answered("update_employee", "Unauthenticated")

=============================================================================
